---- MODULE Spec2Model ----
(***************************************************************************)
(* A state-machine model of the TanStack Query guide: the routing/layout   *)
(* shell, the HTTP client wrapper and the live examples of the pages.      *)
(* The query and mutation hooks are modelled by the state they expose to   *)
(* the pages (status, fetchStatus, data, error, isInvalidated) and by the  *)
(* calls the pages make on the query client.                               *)
(***************************************************************************)
EXTENDS Integers, Sequences, FiniteSets, TLC

\* ------------------------------------------------------------------ bounds

\* Number of todos the server returns for GET /todos?_limit=5.
NTodos == 2
\* Pages of posts the server holds that are full (pageSize items each).
FullPages == 2
\* Toggle mutations that may be in flight together.
MaxToggles == 2
\* Accepted activations of a Create Todo button per component.
MaxCreates == 2
\* Distinct clock readings `new Date().toLocaleTimeString()` can give.
MaxTime == 1
\* Events (user actions and network answers) of one session of the data
\* layer.
MaxSteps == 5

\* ------------------------------------------------------- program constants

pageSize == 5
\* The largest value of the Retries select.
MaxRetrySelect == 3

\* An optional value is a sequence of length 0 (undefined / null) or 1.
NoData == <<>>
Some(v) == <<v>>
Get(o) == o[1]

NoError == "null"
\* The retry option of a fetch whose query sets none.
Unset == -1
\* selectedTodoId is null before a selection; `!!selectedTodoId` is false
\* for it, as it is for 0.
NoId == 0

\* ------------------------------------------------------------------- shell

\* A route table that lacks the route of the DevTools page.
routesWithoutDevtools ==
  << [path |-> "/",               element |-> "HomePage"],
     [path |-> "/basic-query",    element |-> "BasicQueryPage"],
     [path |-> "/mutations",      element |-> "MutationsPage"],
     [path |-> "/cache",          element |-> "CacheManagementPage"],
     [path |-> "/error-handling", element |-> "ErrorHandlingPage"],
     [path |-> "/pagination",     element |-> "PaginationPage"] >>

routes ==
  << [path |-> "/",               element |-> "HomePage"],
     [path |-> "/basic-query",    element |-> "BasicQueryPage"],
     [path |-> "/mutations",      element |-> "MutationsPage"],
     [path |-> "/cache",          element |-> "CacheManagementPage"],
     [path |-> "/error-handling", element |-> "ErrorHandlingPage"],
     [path |-> "/pagination",     element |-> "PaginationPage"],
     [path |-> "/devtools",       element |-> "DevToolsPage"] >>

navItems ==
  << "/basic-query", "/mutations", "/cache", "/error-handling",
     "/pagination", "/devtools" >>

logoLink == "/"

\* Feature cards of which one links to a path that has no route.
homeLinksWithDeadLink ==
  << "/basic-query", "/mutations", "/cache", "/error-handling",
     "/pagination", "/dev-tools" >>

homeLinks ==
  << "/basic-query", "/mutations", "/cache", "/error-handling",
     "/pagination", "/devtools" >>

Range(s) == {s[i] : i \in DOMAIN s}

RoutePaths == {routes[i].path : i \in DOMAIN routes}

\* A URL no route matches: the browser may load the app at any address.
UnroutedUrl == "/unknown"

Locations == RoutePaths \cup {UnroutedUrl}

\* <Routes> renders the element of the first route whose path matches.
MatchingRoutes(loc) == {i \in DOMAIN routes : routes[i].path = loc}

RenderedPage(loc) ==
  IF MatchingRoutes(loc) = {} THEN "none"
  ELSE routes[CHOOSE i \in MatchingRoutes(loc) :
                \A j \in MatchingRoutes(loc) : i <= j].element

Themes == {"light", "dark"}

ToggledTheme(t) == IF t = "light" THEN "dark" ELSE "light"

\* A header icon chosen the other way round.
HeaderIconInverted(t) == IF t = "light" THEN "Sun" ELSE "MoonStar"

HeaderIcon(t) == IF t = "dark" THEN "Sun" ELSE "MoonStar"

CodeBlockStyle(t) == IF t = "dark" THEN "vscDarkPlus" ELSE "vs"

\* --------------------------------------------------------------- HTTP client

baseURL == "https://jsonplaceholder.typicode.com"

\* A request: the client that sends it, its path as segments, its query
\* string as name/value pairs.
Req(method, path, params) ==
  [via |-> "axios", base |-> baseURL, method |-> method, path |-> path,
   params |-> params]

\* A request made with fetch() and the full URL.
FetchReq(method, path, params) ==
  [via |-> "fetch", base |-> baseURL, method |-> method, path |-> path,
   params |-> params]

getTodos == Req("GET", <<"todos">>, {<<"_limit", 5>>})
getTodoById(id) == Req("GET", <<"todos", id>>, {})
createTodo == Req("POST", <<"todos">>, {})
updateTodo(id) == Req("PATCH", <<"todos", id>>, {})
getPosts == Req("GET", <<"posts">>, {<<"_limit", 5>>})
getPostsByPage(page, limit) ==
  Req("GET", <<"posts">>, {<<"_page", page>>, <<"_limit", limit>>})

\* A queryFn that asks for a path of its own.
fetchWithErrorElsewhere == Req("GET", <<"status">>, {})

\* ErrorHandlingPage: requests that are meant to fail.
fetchWithError == Req("GET", <<"non-existent-endpoint">>, {})
createWithError == Req("POST", <<"non-existent-endpoint">>, {})

\* TraditionalMutation and TraditionalFetch call fetch() with the full URL.
traditionalCreate == FetchReq("POST", <<"todos">>, {})
traditionalFetchTodos == FetchReq("GET", <<"todos">>, {<<"_limit", 5>>})

\* How a request can fail: a non-2xx status, or no response at all.
FailKinds == {"http", "network"}

\* The message of the error axios rejects with.
AxiosMessage(kind) ==
  IF kind = "http" THEN "Request failed with status code 404"
  ELSE "Network Error"

\* The message TraditionalMutation's catch block stores: its own Error for a
\* response that is not ok, the TypeError of fetch() otherwise.
TraditionalMutationMessage(kind) ==
  IF kind = "http" THEN "Failed to create todo" ELSE "Failed to fetch"

TraditionalFetchMessage(kind) ==
  IF kind = "http" THEN "Network response was not ok" ELSE "Failed to fetch"

\* ------------------------------------------------------------------- server

newTodo == [title |-> "Learn TanStack Query", completed |-> FALSE, userId |-> 1]

\* The server's answer to POST /todos.
CreatedTodo ==
  [id |-> 201, title |-> newTodo.title, completed |-> newTodo.completed,
   userId |-> newTodo.userId]

TodoIds == 1..NTodos

OriginalTitle(id) == <<"title", id>>
UpdatedTitle(t) == <<"Updated at", t>>

\* The placeholder API serves fixed records and does not store writes.
ServerTodo(id) ==
  [id |-> id, title |-> OriginalTitle(id), completed |-> (id % 2 = 0),
   userId |-> 1]

\* What GET /todos?_limit=5 returns.
ServerTodoList == [i \in TodoIds |-> ServerTodo(i)]

ServerPostCount == FullPages * pageSize

Min(a, b) == IF a < b THEN a ELSE b
Max(a, b) == IF a > b THEN a ELSE b

\* The response of GET /posts?_page=page&_limit=limit as getPostsByPage
\* returns it.
PostsPageResult(page, limit) ==
  LET first == (page - 1) * limit
      n == Min(limit, Max(0, ServerPostCount - first))
      data == [i \in 1..n |-> first + i]
  IN [data |-> data, totalCount |-> ServerPostCount, hasMore |-> (Len(data) = limit)]

Pages == 1..(FullPages + 1)

\* ---------------------------------------------------------------- query keys

TodosKey == <<"todos">>
TodoKey(id) == <<"todo", id>>
ErrorKey == <<"todos-error">>
PostsKey == <<"posts">>
PageKey(page) == <<"posts", page, pageSize>>
InfiniteKey == <<"posts", "infinite">>

Keys ==
  {TodosKey, ErrorKey, PostsKey, InfiniteKey}
    \cup {TodoKey(id) : id \in TodoIds} \cup {PageKey(p) : p \in Pages}

\* A query filter matches every key it is a prefix of.
RECURSIVE PrefixFrom(_, _, _)
PrefixFrom(filter, key, i) ==
  IF i > Len(filter) THEN TRUE
  ELSE IF filter[i] # key[i] THEN FALSE
  ELSE PrefixFrom(filter, key, i + 1)

partialMatchKey(filter, key) ==
  Len(filter) <= Len(key) /\ PrefixFrom(filter, key, 1)

Matching(filter) == {k \in Keys : partialMatchKey(filter, k)}

\* ------------------------------------------------------------- query states

NoRevert == [status |-> "pending", error |-> NoError]

\* A query nothing has been fetched or written for. failureCount and retry
\* belong to the fetch in flight: the failures it has had, and the retry
\* option it was started with.
NewQuery ==
  [status |-> "pending", fetchStatus |-> "idle", data |-> NoData,
   error |-> NoError, isInvalidated |-> FALSE, failureCount |-> 0,
   retry |-> Unset, revertState |-> NoRevert]

isFetching(q) == q.fetchStatus = "fetching"
isPending(q) == q.status = "pending"
isLoading(q) == isFetching(q) /\ isPending(q)
isError(q) == q.status = "error"

\* A fetch starts; with no data the query goes back to pending. retry is the
\* option the fetch was started with.
FetchState(q, retry) ==
  [q EXCEPT !.fetchStatus = "fetching",
            !.status = IF q.data = NoData THEN "pending" ELSE q.status,
            !.error = IF q.data = NoData THEN NoError ELSE q.error,
            !.failureCount = 0,
            !.retry = retry,
            !.revertState = [status |-> q.status, error |-> q.error]]

SuccessState(q, data) ==
  [q EXCEPT !.status = "success", !.fetchStatus = "idle", !.data = Some(data),
            !.error = NoError, !.isInvalidated = FALSE,
            !.failureCount = 0, !.retry = Unset, !.revertState = NoRevert]

ErrorState(q, message) ==
  [q EXCEPT !.status = "error", !.fetchStatus = "idle", !.error = message,
            !.isInvalidated = TRUE, !.retry = Unset, !.revertState = NoRevert]

\* cancelQueries: a fetch in flight is dropped and the query reverts to the
\* state it had when the fetch started.
CancelState(q) ==
  IF isFetching(q)
  THEN [q EXCEPT !.fetchStatus = "idle", !.status = q.revertState.status,
                 !.error = q.revertState.error, !.failureCount = 0,
                 !.retry = Unset, !.revertState = NoRevert]
  ELSE q

\* setQueryData: the data is written as a success; a fetch in flight goes on
\* and would revert to the written state.
SetDataState(q, data) ==
  [q EXCEPT !.status = "success", !.data = Some(data), !.error = NoError,
            !.isInvalidated = FALSE,
            !.revertState = IF isFetching(q)
                            THEN [status |-> "success", error |-> NoError]
                            ELSE NoRevert]

InvalidateState(q) == [q EXCEPT !.isInvalidated = TRUE]

\* -------------------------------------------------------------------- state

VARIABLES
  location,            \* the router's location.pathname
  lastLink,            \* the target of the link activated last, or "none"
  lastControl,         \* the Layout control activated last, or "none"
  isMenuOpen,          \* Layout: the mobile menu
  theme,               \* ThemeContext: the theme
  cache,               \* the query cache: key -> query state
  fetchMeta,           \* the direction of the infinite query's fetch
  issued,              \* the HTTP requests issued by the last step
  cancelled,           \* the queries whose fetch the last step cancelled
  logged,              \* what the last step wrote with console.error
  tf,                  \* TraditionalFetch: its useState values
  tm,                  \* TraditionalMutation: its useState values
  qm,                  \* QueryMutation: the mutation's state
  posted,              \* POST /todos requests issued, per component
  accepted,            \* accepted Create Todo activations, per component
  orphans,             \* create requests in flight of unmounted components
  selectedTodoId,      \* CacheManagementPage: the selected todo
  toggles,             \* the toggle mutations in flight, with their context
  lastSettled,         \* the toggle mutation settled last, with its outcome
  queryErrorShown,     \* ErrorHandlingPage
  mutationErrorShown,  \* ErrorHandlingPage
  retryCount,          \* ErrorHandlingPage: the Retries select
  em,                  \* ErrorHandlingPage: the mutation's state
  page,                \* PaginationPage: the page of the standard list
  steps                \* the events of the session so far

shellVars == <<location, lastLink, lastControl, isMenuOpen, theme>>
effectVars == <<issued, cancelled, logged>>
cacheVars == <<cache, fetchMeta>>
basicVars == <<tf>>
mutationsVars == <<tm, qm, posted, accepted, orphans>>
cachePageVars == <<selectedTodoId, toggles, lastSettled>>
errorPageVars == <<queryErrorShown, mutationErrorShown, retryCount, em>>
paginationVars == <<page>>
localVars ==
  <<basicVars, mutationsVars, cachePageVars, errorPageVars, paginationVars>>
vars == <<shellVars, effectVars, cacheVars, localVars, steps>>

CurrentPage == RenderedPage(location)

\* The step issued no request, cancelled nothing and logged nothing.
Quiet == issued' = {} /\ cancelled' = {} /\ logged' = {}

\* --------------------------------------------------------- queries of a page

\* Every fetch started with the value of the Retries select.
RetryOptionForAll(key, rc) == rc

\* The retry option the repository fetches a query with: the error query
\* passes retry: retryCount. No other query and no mutation sets the option;
\* what the library does for them is in QueryRetried.
RetryOption(key, rc) == IF key = ErrorKey THEN rc ELSE Unset

\* A getNextPageParam that gives the number of the last page it holds.
LastPageParam(q) ==
  IF q.data = NoData THEN 1 ELSE Len(Get(q.data).pages)

\* The request a query's queryFn makes. The infinite query's page param is
\* the next one after the pages it holds.
NextPageParam(q) ==
  IF q.data = NoData THEN 1 ELSE Len(Get(q.data).pages) + 1

RequestOf(key, c) ==
  IF key = TodosKey THEN getTodos
  ELSE IF key = ErrorKey THEN fetchWithError
  ELSE IF key = PostsKey THEN getPosts
  ELSE IF key = InfiniteKey THEN getPostsByPage(1, pageSize)
  ELSE IF key[1] = "todo" THEN getTodoById(key[2])
  ELSE getPostsByPage(key[2], pageSize)

\* The queries a page observes when it mounts (queries with enabled: false
\* are not among them).
ObservedOnMount(pg) ==
  IF pg \in {"BasicQueryPage", "CacheManagementPage", "ErrorHandlingPage"}
    THEN {TodosKey}
  ELSE IF pg = "DevToolsPage" THEN {TodosKey, PostsKey}
  ELSE IF pg = "PaginationPage" THEN {PageKey(1), InfiniteKey}
  ELSE {}

\* An observer subscribes: it fetches unless a fetch is in flight or the
\* data is fresh.
FetchesOnSubscribe(q, elapsed) ==
  ~isFetching(q) /\ (q.data = NoData \/ q.isInvalidated \/ elapsed)

Subscribe(c, keys, elapsed, rc) ==
  [k \in Keys |->
     IF k \in keys /\ FetchesOnSubscribe(c[k], elapsed)
     THEN FetchState(c[k], RetryOption(k, rc)) ELSE c[k]]

SubscribeRequests(c, keys, elapsed) ==
  {RequestOf(k, c) : k \in {x \in keys : FetchesOnSubscribe(c[x], elapsed)}}

\* -------------------------------------------------------- component states

TraditionalFetchMounted ==
  [isLoading |-> TRUE, error |-> NoError, todos |-> <<>>, inFlight |-> TRUE]
TraditionalFetchUnmounted ==
  [isLoading |-> TRUE, error |-> NoError, todos |-> <<>>, inFlight |-> FALSE]

TraditionalMutationInit ==
  [isLoading |-> FALSE, error |-> NoError, success |-> FALSE,
   createdTodo |-> NoData]

\* The state useMutation exposes before mutate is called.
IdleMutation == [status |-> "idle", error |-> NoError, data |-> NoData]

\* The values a page's components hold when page pg has just mounted: every
\* other page's components are unmounted and hold nothing. A create request
\* of a component that unmounts stays in flight: its promise settles later,
\* for an instance that is gone.
MountLocal(pg) ==
  /\ orphans' = [traditional |-> orphans["traditional"]
                                   + (IF tm.isLoading THEN 1 ELSE 0),
                 query |-> orphans["query"]
                             + (IF qm.status = "pending" THEN 1 ELSE 0)]
  /\ tf' = IF pg = "BasicQueryPage" THEN TraditionalFetchMounted
           ELSE TraditionalFetchUnmounted
  /\ tm' = TraditionalMutationInit
  /\ qm' = IdleMutation
  /\ selectedTodoId' = NoId
  /\ queryErrorShown' = FALSE
  /\ mutationErrorShown' = FALSE
  /\ retryCount' = 0
  /\ em' = IdleMutation
  /\ page' = 1

MountRequests(pg) ==
  IF pg = "BasicQueryPage" THEN {traditionalFetchTodos} ELSE {}

NewCache == [k \in Keys |-> NewQuery]

\* The infinite query's fetch: its direction ("forward" for fetchNextPage,
\* "none" for a first fetch or a refetch) and the pages it has fetched.
NoMeta == [direction |-> "none", done |-> 0]

Components == {"traditional", "query"}

Init ==
  /\ location \in Locations
  /\ lastLink = "none"
  /\ lastControl = "none"
  /\ isMenuOpen = FALSE
  /\ theme \in Themes
  /\ cache = Subscribe(NewCache, ObservedOnMount(RenderedPage(location)), FALSE, 0)
  /\ fetchMeta = NoMeta
  /\ issued = SubscribeRequests(NewCache, ObservedOnMount(RenderedPage(location)), FALSE)
                 \cup MountRequests(RenderedPage(location))
  /\ cancelled = {}
  /\ logged = {}
  /\ tf = IF RenderedPage(location) = "BasicQueryPage"
          THEN TraditionalFetchMounted ELSE TraditionalFetchUnmounted
  /\ tm = TraditionalMutationInit
  /\ qm = IdleMutation
  /\ posted = [c \in Components |-> 0]
  /\ accepted = [c \in Components |-> 0]
  /\ orphans = [c \in Components |-> 0]
  /\ selectedTodoId = NoId
  /\ toggles = <<>>
  /\ lastSettled = NoData
  /\ queryErrorShown = FALSE
  /\ mutationErrorShown = FALSE
  /\ retryCount = 0
  /\ em = IdleMutation
  /\ page = 1
  /\ steps = 0

\* ----------------------------------------------------------- shell actions

\* A <Link to=...> is activated. The router moves to the target; when that
\* renders another page, the page shown is unmounted and the new one mounts
\* and subscribes to its queries (elapsed: the cached data is older than
\* staleTime).
Navigate(to) ==
  /\ UNCHANGED steps
  /\ location' = to
  /\ lastLink' = to
  /\ lastControl' = "link"
  /\ IF RenderedPage(to) = RenderedPage(location)
     THEN /\ UNCHANGED <<cacheVars, localVars>>
          /\ Quiet
     ELSE \E elapsed \in BOOLEAN :
          /\ cache' = Subscribe(cache, ObservedOnMount(RenderedPage(to)), elapsed, 0)
          /\ issued' = SubscribeRequests(cache, ObservedOnMount(RenderedPage(to)), elapsed)
                         \cup MountRequests(RenderedPage(to))
          /\ cancelled' = {}
          /\ logged' = {}
          /\ MountLocal(RenderedPage(to))
          /\ UNCHANGED <<fetchMeta, posted, accepted, toggles, lastSettled>>

\* Layout: the logo link.
ClickLogo ==
  /\ Navigate(logoLink)
  /\ UNCHANGED <<isMenuOpen, theme>>

\* Layout: a link of the header's nav.
ClickNavItem(i) ==
  /\ Navigate(navItems[i])
  /\ UNCHANGED <<isMenuOpen, theme>>

\* Layout: a link of the mobile menu, which closes the menu.
ClickMobileNavItem(i) ==
  /\ isMenuOpen
  /\ Navigate(navItems[i])
  /\ isMenuOpen' = FALSE
  /\ UNCHANGED theme

\* HomePage: a feature card.
ClickHomeLink(i) ==
  /\ CurrentPage = "HomePage"
  /\ Navigate(homeLinks[i])
  /\ UNCHANGED <<isMenuOpen, theme>>

toggleMenu ==
  /\ isMenuOpen' = ~isMenuOpen
  /\ lastControl' = "menu"
  /\ Quiet
  /\ UNCHANGED <<location, lastLink, theme, cacheVars, localVars, steps>>

toggleTheme ==
  /\ theme' = ToggledTheme(theme)
  /\ lastControl' = "theme"
  /\ Quiet
  /\ UNCHANGED <<location, lastLink, isMenuOpen, cacheVars, localVars, steps>>

ShellNext ==
  \/ ClickLogo
  \/ \E i \in DOMAIN navItems : ClickNavItem(i)
  \/ \E i \in DOMAIN navItems : ClickMobileNavItem(i)
  \/ \E i \in DOMAIN homeLinks : ClickHomeLink(i)
  \/ toggleMenu
  \/ toggleTheme

SpecShell == Init /\ [][ShellNext]_vars

\* ------------------------------------------------------------ query client

\* The queries with an enabled observer on the page shown.
ActiveKeys ==
  IF CurrentPage = "BasicQueryPage" THEN {TodosKey}
  ELSE IF CurrentPage = "CacheManagementPage"
    THEN {TodosKey} \cup (IF selectedTodoId # NoId THEN {TodoKey(selectedTodoId)} ELSE {})
  ELSE IF CurrentPage = "ErrorHandlingPage"
    THEN {TodosKey} \cup (IF queryErrorShown THEN {ErrorKey} ELSE {})
  ELSE IF CurrentPage = "DevToolsPage" THEN {TodosKey, PostsKey}
  ELSE IF CurrentPage = "PaginationPage" THEN {PageKey(page), InfiniteKey}
  ELSE {}

\* refetch() and the refetch of invalidateQueries: a fetch in flight for a
\* query that has data is dropped and replaced; one for a query without data
\* is joined.
Restarts(q) == ~(isFetching(q) /\ q.data = NoData)
Superseded(q) == isFetching(q) /\ q.data # NoData

RefetchKeys(c, keys) == {k \in keys : Restarts(c[k])}

Refetch(c, keys, rc) ==
  [k \in Keys |->
     IF k \in RefetchKeys(c, keys) THEN FetchState(c[k], RetryOption(k, rc))
     ELSE c[k]]

\* queryClient.invalidateQueries({ queryKey: filter }): every matching query
\* is marked invalidated and the active ones are refetched.
Invalidated(c, filters) ==
  [k \in Keys |->
     IF \E f \in filters : partialMatchKey(f, k) THEN InvalidateState(c[k])
     ELSE c[k]]

InvalidateTargets(filters) ==
  {k \in ActiveKeys : \E f \in filters : partialMatchKey(f, k)}

invalidateQueries(c, filters) ==
  Refetch(Invalidated(c, filters), InvalidateTargets(filters), retryCount)

invalidateRequests(c, filters) ==
  {RequestOf(k, c) : k \in RefetchKeys(c, InvalidateTargets(filters))}

invalidateSuperseded(c, filters) ==
  {[key |-> k, how |-> "superseded"] :
     k \in {x \in InvalidateTargets(filters) : Superseded(c[x])}}

\* queryClient.cancelQueries({ queryKey: filter }).
cancelQueries(c, filter) ==
  [k \in Keys |-> IF partialMatchKey(filter, k) THEN CancelState(c[k]) ELSE c[k]]

cancelQueriesCancelled(c, filter) ==
  {[key |-> k, how |-> "cancelQueries"] :
     k \in {x \in Matching(filter) : isFetching(c[x])}}

\* queryClient.setQueryData(key, data).
setQueryData(c, key, data) == [c EXCEPT ![key] = SetDataState(c[key], data)]

getQueryData(c, key) == c[key].data

\* ------------------------------------------------------------ MutationsPage

\* A handleSubmit that leaves the error of the last attempt in place.
handleSubmitStartKeepsError(t) == [t EXCEPT !.isLoading = TRUE]

\* A handleSubmit that leaves the success flag of the last attempt in place.
handleSubmitStartKeepsSuccess(t) == [t EXCEPT !.isLoading = TRUE, !.error = NoError]

\* handleSubmit before its request: setIsLoading(true), setError(null),
\* setSuccess(false).
handleSubmitStart(t) ==
  [t EXCEPT !.isLoading = TRUE, !.error = NoError, !.success = FALSE]

\* TraditionalMutation: {error && ...}
ErrorBanner(t) == t.error # NoError

\* TraditionalMutation: {success && createdTodo && ...}
SuccessBanner(t) == t.success /\ t.createdTodo # NoData

\* A Create Todo button that is never disabled.
CreateNeverDisabled(t) == FALSE

\* TraditionalMutation: disabled={isLoading}
CreateDisabled(t) == t.isLoading

\* TraditionalMutation: the Create Todo button, disabled while isLoading.
handleSubmit ==
  /\ CurrentPage = "MutationsPage"
  /\ ~CreateDisabled(tm)
  /\ accepted["traditional"] < MaxCreates
  /\ tm' = handleSubmitStart(tm)
  /\ issued' = {traditionalCreate}
  /\ accepted' = [accepted EXCEPT !["traditional"] = @ + 1]
  /\ cancelled' = {}
  /\ logged' = {}
  /\ UNCHANGED <<shellVars, cacheVars, basicVars, qm, cachePageVars,
                 errorPageVars, paginationVars>>

\* The POST of handleSubmit is answered with a 2xx response.
handleSubmitOk ==
  /\ CurrentPage = "MutationsPage"
  /\ tm.isLoading
  /\ tm' = [tm EXCEPT !.createdTodo = Some(CreatedTodo), !.success = TRUE,
                      !.isLoading = FALSE]
  /\ Quiet
  /\ UNCHANGED <<shellVars, cacheVars, basicVars, qm, accepted, cachePageVars,
                 errorPageVars, paginationVars>>

\* The POST of handleSubmit fails: the catch block, then finally.
handleSubmitFails(kind) ==
  /\ CurrentPage = "MutationsPage"
  /\ tm.isLoading
  /\ tm' = [tm EXCEPT !.error = TraditionalMutationMessage(kind),
                      !.isLoading = FALSE]
  /\ Quiet
  /\ UNCHANGED <<shellVars, cacheVars, basicVars, qm, accepted, cachePageVars,
                 errorPageVars, paginationVars>>

\* The requests mutation.mutate(newTodo) makes: mutationFn is createTodo and
\* a mutation is not retried.
\* A mutationFn that sends nothing.
mutateRequestsNone == {}

mutateRequests == {createTodo}

\* QueryMutation: the Create Todo button, disabled while isPending.
QueryMutationClick ==
  /\ CurrentPage = "MutationsPage"
  /\ qm.status # "pending"
  /\ accepted["query"] < MaxCreates
  /\ qm' = [status |-> "pending", error |-> NoError, data |-> NoData]
  /\ issued' = mutateRequests
  /\ accepted' = [accepted EXCEPT !["query"] = @ + 1]
  /\ cancelled' = {}
  /\ logged' = {}
  /\ UNCHANGED <<shellVars, cacheVars, basicVars, tm, cachePageVars,
                 errorPageVars, paginationVars>>

\* createTodo resolves; onSuccess invalidates the todos list query.
QueryMutationSucceeds ==
  /\ CurrentPage = "MutationsPage"
  /\ qm.status = "pending"
  /\ qm' = [status |-> "success", error |-> NoError, data |-> Some(CreatedTodo)]
  /\ cache' = invalidateQueries(cache, {TodosKey})
  /\ issued' = invalidateRequests(cache, {TodosKey})
  /\ cancelled' = invalidateSuperseded(cache, {TodosKey})
  /\ logged' = {}
  /\ UNCHANGED <<shellVars, fetchMeta, basicVars, tm, accepted, cachePageVars,
                 errorPageVars, paginationVars>>

QueryMutationFails(kind) ==
  /\ CurrentPage = "MutationsPage"
  /\ qm.status = "pending"
  /\ qm' = [status |-> "error", error |-> AxiosMessage(kind), data |-> NoData]
  /\ Quiet
  /\ UNCHANGED <<shellVars, cacheVars, basicVars, tm, accepted, cachePageVars,
                 errorPageVars, paginationVars>>

\* The create request of an unmounted component is answered. The state
\* setters of an unmounted TraditionalMutation do nothing; the mutation of
\* an unmounted QueryMutation still runs its onSuccess.
OrphanAnswered(c, ok) ==
  /\ orphans[c] > 0
  /\ orphans' = [orphans EXCEPT ![c] = @ - 1]
  /\ IF c = "query" /\ ok
     THEN /\ cache' = invalidateQueries(cache, {TodosKey})
          /\ issued' = invalidateRequests(cache, {TodosKey})
          /\ cancelled' = invalidateSuperseded(cache, {TodosKey})
     ELSE /\ cache' = cache
          /\ issued' = {}
          /\ cancelled' = {}
  /\ logged' = {}
  /\ UNCHANGED <<shellVars, fetchMeta, basicVars, tm, qm, posted, accepted,
                 cachePageVars, errorPageVars, paginationVars, steps>>

\* The POST /todos requests a step issued, counted per component: the
\* traditional component sends them with fetch(), the other with axios.
IsCreatePost(r) == r.method = "POST" /\ r.path = <<"todos">>

PostsIssued(reqs, c) ==
  Cardinality({r \in reqs : IsCreatePost(r)
                 /\ r.via = (IF c = "traditional" THEN "fetch" ELSE "axios")})

\* ----------------------------------------------------------------- network

postsList == PostsPageResult(1, 5).data

\* What the server can answer a query's request with. The endpoint of the
\* error query does not exist.
ResponseData(key) ==
  IF key = TodosKey THEN {ServerTodoList}
  ELSE IF key = ErrorKey THEN {}
  ELSE IF key = PostsKey THEN {postsList}
  ELSE IF key[1] = "todo" THEN {ServerTodo(key[2])}
  ELSE {PostsPageResult(key[2], pageSize)}

PlainKeys == Keys \ {InfiniteKey}

\* The request of a query's fetch is answered.
QuerySucceeds(key) ==
  /\ isFetching(cache[key])
  /\ \E data \in ResponseData(key) :
       cache' = [cache EXCEPT ![key] = SuccessState(@, data)]
  /\ Quiet
  /\ UNCHANGED <<shellVars, fetchMeta, basicVars, tm, qm, accepted,
                 cachePageVars, errorPageVars, paginationVars>>

\* The request of a query's fetch fails: the fetch asks again while it has
\* had fewer failures than its retry option allows, and ends in the error
\* state otherwise.
Retries(q) == q.failureCount < q.retry

\* A query that sets no retry option is retried as the library chooses: the
\* request is sent again and the query stays as it is.
QueryRetried(key) ==
  /\ isFetching(cache[key])
  /\ cache[key].retry = Unset
  /\ issued' = {RequestOf(key, cache)}
  /\ cancelled' = {}
  /\ logged' = {}
  /\ UNCHANGED <<shellVars, cacheVars, basicVars, tm, qm, accepted,
                 cachePageVars, errorPageVars, paginationVars>>

QueryFails(key, kind) ==
  /\ isFetching(cache[key])
  /\ IF Retries(cache[key])
     THEN /\ cache' = [cache EXCEPT ![key].failureCount = @ + 1]
          /\ issued' = {RequestOf(key, cache)}
     ELSE /\ cache' = [cache EXCEPT ![key] = ErrorState(@, AxiosMessage(kind))]
          /\ issued' = {}
  /\ cancelled' = {}
  /\ logged' = {}
  /\ UNCHANGED <<shellVars, fetchMeta, basicVars, tm, qm, accepted,
                 cachePageVars, errorPageVars, paginationVars>>

\* The window regains focus: the observed queries that are stale are
\* fetched again (elapsed: the data is older than staleTime).
WindowFocus ==
  /\ \E elapsed \in BOOLEAN :
       /\ SubscribeRequests(cache, ActiveKeys, elapsed) # {}
       /\ cache' = Subscribe(cache, ActiveKeys, elapsed, retryCount)
       /\ issued' = SubscribeRequests(cache, ActiveKeys, elapsed)
  /\ cancelled' = {}
  /\ logged' = {}
  /\ UNCHANGED <<shellVars, fetchMeta, basicVars, tm, qm, accepted,
                 cachePageVars, errorPageVars, paginationVars>>

\* ----------------------------------------------------------- BasicQueryPage

\* TraditionalFetch: the fetch of its effect is answered with a 2xx response.
fetchTodosOk ==
  /\ CurrentPage = "BasicQueryPage"
  /\ tf.inFlight
  /\ tf' = [tf EXCEPT !.todos = ServerTodoList, !.isLoading = FALSE,
                      !.inFlight = FALSE]
  /\ Quiet
  /\ UNCHANGED <<shellVars, cacheVars, mutationsVars, cachePageVars,
                 errorPageVars, paginationVars>>

fetchTodosFails(kind) ==
  /\ CurrentPage = "BasicQueryPage"
  /\ tf.inFlight
  /\ tf' = [tf EXCEPT !.error = TraditionalFetchMessage(kind),
                      !.isLoading = FALSE, !.inFlight = FALSE]
  /\ Quiet
  /\ UNCHANGED <<shellVars, cacheVars, mutationsVars, cachePageVars,
                 errorPageVars, paginationVars>>

\* ------------------------------------------------------ CacheManagementPage

\* The page renders "Loading todos..." and nothing else while the todos
\* query is loading.
CachePageShown ==
  CurrentPage = "CacheManagementPage" /\ ~isLoading(cache[TodosKey])

\* The todos the list renders (todos?.map).
ListedTodos ==
  IF cache[TodosKey].data = NoData THEN <<>> ELSE Get(cache[TodosKey].data)

\* A list item is clicked: setSelectedTodoId, and the query of the selected
\* todo gets its observer.
SelectTodo(i) ==
  /\ CachePageShown
  /\ i \in DOMAIN ListedTodos
  /\ selectedTodoId' = ListedTodos[i].id
  /\ \E elapsed \in BOOLEAN :
       /\ cache' = Subscribe(cache, {TodoKey(ListedTodos[i].id)}, elapsed, retryCount)
       /\ issued' = SubscribeRequests(cache, {TodoKey(ListedTodos[i].id)}, elapsed)
  /\ cancelled' = {}
  /\ logged' = {}
  /\ UNCHANGED <<shellVars, fetchMeta, basicVars, tm, qm, accepted, toggles,
                 lastSettled, errorPageVars, paginationVars>>

\* A map that sets completed on every todo of the list.
WithCompletedOnAll(todos, id, completed) ==
  [i \in DOMAIN todos |-> [todos[i] EXCEPT !.completed = completed]]

\* previousTodos.map(todo => todo.id === id ? { ...todo, completed } : todo)
WithCompleted(todos, id, completed) ==
  [i \in DOMAIN todos |->
     IF todos[i].id = id THEN [todos[i] EXCEPT !.completed = completed]
     ELSE todos[i]]

\* onMutate after both cancelQueries: the snapshots.
onMutateContext(c, id) ==
  [previousTodos |-> getQueryData(c, TodosKey),
   previousTodo |-> getQueryData(c, TodoKey(id))]

\* onMutate after both cancelQueries: the optimistic writes.
onMutateWrites(c, id, completed) ==
  LET ctx == onMutateContext(c, id)
      c1 == IF ctx.previousTodos # NoData
            THEN setQueryData(c, TodosKey,
                              WithCompleted(Get(ctx.previousTodos), id, completed))
            ELSE c
  IN IF ctx.previousTodo # NoData
     THEN setQueryData(c1, TodoKey(id),
                       [Get(ctx.previousTodo) EXCEPT !.completed = completed])
     ELSE c1

\* An onMutate without its two cancelQueries.
onMutateWithoutCancels(c, id) == c

\* An onMutate that cancels the fetch of the list only.
onMutateCancelsListOnly(c, id) == cancelQueries(c, TodosKey)

\* onMutate: the two cancelQueries, awaited in turn.
onMutateCancels(c, id) == cancelQueries(cancelQueries(c, TodosKey), TodoKey(id))

\* The toggles in flight, each marked as overlapped by another one.
Overlapped(ts) == [i \in DOMAIN ts |-> [ts[i] EXCEPT !.overlapped = TRUE]]

\* The toggles in flight after one of their group has succeeded.
OneSucceeded(ts) == [i \in DOMAIN ts |-> [ts[i] EXCEPT !.allFailed = FALSE]]

\* toggleMutation.mutate({ id, completed }): onMutate runs to its end, then
\* mutationFn sends the PATCH. Each toggle in flight is kept with its
\* variables and context, with the data the two caches held when mutate was
\* called (before), and with whether another toggle was in flight with it.
\* The toggles in flight together form a group, from a toggle started with
\* none in flight to the next moment none is in flight: each toggle carries
\* the data ['todos'] held before the first toggle of its group (first) and
\* whether every toggle of the group settled so far has failed (allFailed).
mutateToggle(id, completed) ==
  /\ Len(toggles) < MaxToggles
  /\ cache' = onMutateWrites(onMutateCancels(cache, id), id, completed)
  /\ toggles' = Append(Overlapped(toggles),
                  [id |-> id, completed |-> completed,
                   context |-> onMutateContext(onMutateCancels(cache, id), id),
                   before |-> [todos |-> cache[TodosKey].data,
                               todo |-> cache[TodoKey(id)].data],
                   overlapped |-> toggles # <<>>,
                   first |-> IF toggles = <<>> THEN cache[TodosKey].data
                             ELSE toggles[1].first,
                   allFailed |-> toggles = <<>> \/ toggles[1].allFailed])
  /\ cancelled' = cancelQueriesCancelled(cache, TodosKey)
                    \cup cancelQueriesCancelled(cache, TodoKey(id))
  /\ issued' = {updateTodo(id)}
  /\ logged' = {}
  /\ UNCHANGED <<shellVars, fetchMeta, basicVars, tm, qm, accepted,
                 selectedTodoId, lastSettled, errorPageVars, paginationVars>>

\* The button of a list item: handleToggleTodo(todo.id, todo.completed).
ToggleListed(i) ==
  /\ CachePageShown
  /\ i \in DOMAIN ListedTodos
  /\ mutateToggle(ListedTodos[i].id, ~ListedTodos[i].completed)

\* The details panel shows the selected todo once its query has data.
DetailsShown ==
  /\ CachePageShown
  /\ selectedTodoId # NoId
  /\ ~isLoading(cache[TodoKey(selectedTodoId)])
  /\ cache[TodoKey(selectedTodoId)].data # NoData

\* The button of the details panel:
\* handleToggleTodo(selectedTodo.id, selectedTodo.completed).
ToggleSelected ==
  /\ DetailsShown
  /\ mutateToggle(Get(cache[TodoKey(selectedTodoId)].data).id,
                  ~Get(cache[TodoKey(selectedTodoId)].data).completed)

RemoveAt(s, i) == [j \in 1..(Len(s) - 1) |-> IF j < i THEN s[j] ELSE s[j + 1]]

\* An onError that writes back the list only.
onErrorListOnly(c, id, context) ==
  IF context.previousTodos # NoData
  THEN setQueryData(c, TodosKey, Get(context.previousTodos))
  ELSE c

\* onError: the snapshots that exist are written back.
onError(c, id, context) ==
  LET c1 == IF context.previousTodos # NoData
            THEN setQueryData(c, TodosKey, Get(context.previousTodos))
            ELSE c
  IN IF context.previousTodo # NoData
     THEN setQueryData(c1, TodoKey(id), Get(context.previousTodo))
     ELSE c1

\* A toggle that has run its onSettled, with whether it failed.
Settled(toggle, failed) ==
  [id |-> toggle.id, completed |-> toggle.completed, before |-> toggle.before,
   overlapped |-> toggle.overlapped, failed |-> failed,
   first |-> toggle.first, allFailed |-> toggle.allFailed /\ failed]

\* An onSettled that invalidates the list only.
onSettledFiltersListOnly(id) == {TodosKey}

\* onSettled: the filters of its two invalidateQueries calls.
onSettledFilters(id) == {TodosKey, TodoKey(id)}

\* The PATCH of a toggle is answered: onSettled.
ToggleSucceeds(i) ==
  /\ i \in DOMAIN toggles
  /\ cache' = invalidateQueries(cache, onSettledFilters(toggles[i].id))
  /\ issued' = invalidateRequests(cache, onSettledFilters(toggles[i].id))
  /\ cancelled' = invalidateSuperseded(cache, onSettledFilters(toggles[i].id))
  /\ toggles' = OneSucceeded(RemoveAt(toggles, i))
  /\ lastSettled' = Some(Settled(toggles[i], FALSE))
  /\ logged' = {}
  /\ UNCHANGED <<shellVars, fetchMeta, basicVars, tm, qm, accepted,
                 selectedTodoId, errorPageVars, paginationVars>>

\* The PATCH of a toggle fails: onError, then onSettled.
ToggleFails(i) ==
  /\ i \in DOMAIN toggles
  /\ LET rolled == onError(cache, toggles[i].id, toggles[i].context)
     IN /\ cache' = invalidateQueries(rolled, onSettledFilters(toggles[i].id))
        /\ issued' = invalidateRequests(rolled, onSettledFilters(toggles[i].id))
        /\ cancelled' = invalidateSuperseded(rolled, onSettledFilters(toggles[i].id))
  /\ toggles' = RemoveAt(toggles, i)
  /\ lastSettled' = Some(Settled(toggles[i], TRUE))
  /\ logged' = {}
  /\ UNCHANGED <<shellVars, fetchMeta, basicVars, tm, qm, accepted,
                 selectedTodoId, errorPageVars, paginationVars>>

\* The Invalidate Cache button.
invalidateTodosCache ==
  /\ CachePageShown
  /\ cache' = invalidateQueries(cache, {TodosKey})
  /\ issued' = invalidateRequests(cache, {TodosKey})
  /\ cancelled' = invalidateSuperseded(cache, {TodosKey})
  /\ logged' = {}
  /\ UNCHANGED <<shellVars, fetchMeta, localVars>>

\* The Hard Refetch button: refetch() of the todos query.
hardRefetchTodos ==
  /\ CachePageShown
  /\ cache' = Refetch(cache, {TodosKey}, retryCount)
  /\ issued' = {RequestOf(k, cache) : k \in RefetchKeys(cache, {TodosKey})}
  /\ cancelled' = {[key |-> k, how |-> "superseded"] :
                      k \in {x \in {TodosKey} : Superseded(cache[x])}}
  /\ logged' = {}
  /\ UNCHANGED <<shellVars, fetchMeta, localVars>>

\* The Set Cache Directly button, pressed when the clock reads t.
setTodoDirectlyWrites(c, todos, sel, t) ==
  LET firstTodo == [todos[1] EXCEPT !.title = UpdatedTitle(t)]
      old == getQueryData(c, TodosKey)
      c1 == setQueryData(c, TodosKey,
              IF old # NoData
              THEN [i \in DOMAIN Get(old) |->
                      IF Get(old)[i].id = firstTodo.id THEN firstTodo
                      ELSE Get(old)[i]]
              ELSE <<>>)
  IN IF sel = firstTodo.id THEN setQueryData(c1, TodoKey(firstTodo.id), firstTodo)
     ELSE c1

setTodoDirectly(t) ==
  /\ CachePageShown
  /\ IF cache[TodosKey].data # NoData /\ Len(ListedTodos) > 0
     THEN cache' = setTodoDirectlyWrites(cache, ListedTodos, selectedTodoId, t)
     ELSE cache' = cache
  /\ Quiet
  /\ UNCHANGED <<shellVars, fetchMeta, localVars>>

Times == 1..MaxTime

\* -------------------------------------------------------- ErrorHandlingPage

\* The Show/Hide Error Query button: setQueryErrorShown(!queryErrorShown).
\* The error query is enabled while queryErrorShown; on becoming enabled it
\* fetches (it never has data) with retry: retryCount.
toggleErrorQuery ==
  /\ CurrentPage = "ErrorHandlingPage"
  /\ queryErrorShown' = ~queryErrorShown
  /\ IF ~queryErrorShown
     THEN /\ cache' = Subscribe(cache, {ErrorKey}, FALSE, retryCount)
          /\ issued' = SubscribeRequests(cache, {ErrorKey}, FALSE)
     ELSE /\ cache' = cache
          /\ issued' = {}
  /\ cancelled' = {}
  /\ logged' = {}
  /\ UNCHANGED <<shellVars, fetchMeta, basicVars, tm, qm, accepted,
                 cachePageVars, mutationErrorShown, retryCount, em,
                 paginationVars>>

\* The Retries select: setRetryCount(Number(e.target.value)).
setRetryCount(n) ==
  /\ CurrentPage = "ErrorHandlingPage"
  /\ retryCount' = n
  /\ Quiet
  /\ UNCHANGED <<shellVars, cacheVars, basicVars, tm, qm, accepted,
                 cachePageVars, queryErrorShown, mutationErrorShown, em,
                 paginationVars>>

\* The Run Error Mutation button, disabled while the mutation is pending.
runErrorMutation ==
  /\ CurrentPage = "ErrorHandlingPage"
  /\ em.status # "pending"
  /\ mutationErrorShown' = TRUE
  /\ em' = [status |-> "pending", error |-> NoError, data |-> NoData]
  /\ issued' = {createWithError}
  /\ cancelled' = {}
  /\ logged' = {}
  /\ UNCHANGED <<shellVars, cacheVars, basicVars, tm, qm, accepted,
                 cachePageVars, queryErrorShown, retryCount, paginationVars>>

\* What the mutation's onError hands to console.error.
MutationErrorLog(message) == [label |-> "Mutation error:", error |-> message]

\* The POST of the error mutation fails (its endpoint does not exist):
\* onError logs the error.
errorMutationFails(kind) ==
  /\ CurrentPage = "ErrorHandlingPage"
  /\ em.status = "pending"
  /\ em' = [status |-> "error", error |-> AxiosMessage(kind), data |-> NoData]
  /\ logged' = {MutationErrorLog(AxiosMessage(kind))}
  /\ issued' = {}
  /\ cancelled' = {}
  /\ UNCHANGED <<shellVars, cacheVars, basicVars, tm, qm, accepted,
                 cachePageVars, queryErrorShown, mutationErrorShown,
                 retryCount, paginationVars>>

RetrySelectOptions == 0..MaxRetrySelect

\* ----------------------------------------------------------- PaginationPage

\* The standard list renders its posts and buttons in the last branch of
\* isLoading ? ... : isError ? ... : ...
StandardShown ==
  /\ CurrentPage = "PaginationPage"
  /\ ~isLoading(cache[PageKey(page)])
  /\ ~isError(cache[PageKey(page)])

\* paginatedData?.hasMore
paginatedHasMore ==
  cache[PageKey(page)].data # NoData /\ Get(cache[PageKey(page)].data).hasMore

\* handlePageChange(newPage): setPage; the observer moves to the query of
\* the new page.
handlePageChange(newPage) ==
  /\ page' = newPage
  /\ \E elapsed \in BOOLEAN :
       /\ cache' = Subscribe(cache, {PageKey(newPage)}, elapsed, retryCount)
       /\ issued' = SubscribeRequests(cache, {PageKey(newPage)}, elapsed)
  /\ cancelled' = {}
  /\ logged' = {}
  /\ UNCHANGED <<shellVars, fetchMeta, basicVars, tm, qm, accepted,
                 cachePageVars, errorPageVars>>

\* The Previous button, disabled on page 1.
PreviousPage ==
  /\ StandardShown
  /\ page # 1
  /\ handlePageChange(page - 1)

\* The Next button, disabled unless the page shown has more.
NextPage ==
  /\ StandardShown
  /\ paginatedHasMore
  /\ handlePageChange(page + 1)

\* The pointer enters the Next button: the next page is fetched into the
\* cache unless it is fresh there or being fetched.
prefetchNextPage ==
  /\ StandardShown
  /\ IF paginatedHasMore
     THEN \E elapsed \in BOOLEAN :
            /\ cache' = Subscribe(cache, {PageKey(page + 1)}, elapsed, 0)
            /\ issued' = SubscribeRequests(cache, {PageKey(page + 1)}, elapsed)
     ELSE /\ cache' = cache
          /\ issued' = {}
  /\ cancelled' = {}
  /\ logged' = {}
  /\ UNCHANGED <<shellVars, fetchMeta, basicVars, tm, qm, accepted,
                 cachePageVars, errorPageVars, paginationVars>>

\* infiniteData?.pages
InfinitePages(q) == IF q.data = NoData THEN <<>> ELSE Get(q.data).pages

\* getNextPageParam(lastPage, allPages) is defined.
hasNextPage(q) ==
  InfinitePages(q) # <<>> /\ InfinitePages(q)[Len(InfinitePages(q))].hasMore

isFetchingNextPage ==
  isFetching(cache[InfiniteKey]) /\ fetchMeta.direction = "forward"

\* The infinite list renders its pages and the Load More button in the last
\* branch of status === 'pending' ? ... : status === 'error' ? ... : ...
InfiniteShown ==
  /\ CurrentPage = "PaginationPage"
  /\ ~isPending(cache[InfiniteKey])
  /\ ~isError(cache[InfiniteKey])

\* The Load More button: fetchNextPage(), which replaces a refetch in
\* flight.
fetchNextPage ==
  /\ InfiniteShown
  /\ hasNextPage(cache[InfiniteKey])
  /\ ~isFetchingNextPage
  /\ cache' = [cache EXCEPT ![InfiniteKey] = FetchState(@, Unset)]
  /\ fetchMeta' = [direction |-> "forward", done |-> 0]
  /\ issued' = {getPostsByPage(NextPageParam(cache[InfiniteKey]), pageSize)}
  /\ cancelled' = IF isFetching(cache[InfiniteKey])
                  THEN {[key |-> InfiniteKey, how |-> "superseded"]} ELSE {}
  /\ logged' = {}
  /\ UNCHANGED <<shellVars, basicVars, tm, qm, accepted, cachePageVars,
                 errorPageVars, paginationVars>>

\* The pages a first fetch or a refetch of the infinite query asks for: as
\* many as it holds, at least one.
PagesToFetch(q) == Max(1, Len(InfinitePages(q)))

FetchedPages(n) == [i \in 1..n |-> PostsPageResult(i, pageSize)]

\* A request of the infinite query is answered. fetchNextPage appends the
\* page; a first fetch or a refetch asks for its pages one after the other,
\* from the first, and replaces the data when the last has arrived.
InfinitePageArrives ==
  /\ isFetching(cache[InfiniteKey])
  /\ IF fetchMeta.direction = "forward"
     THEN /\ cache' = [cache EXCEPT ![InfiniteKey] =
                 SuccessState(@, [pages |->
                   Append(InfinitePages(@),
                          PostsPageResult(NextPageParam(@), pageSize))])]
          /\ fetchMeta' = NoMeta
          /\ issued' = {}
     ELSE IF \/ fetchMeta.done + 1 >= PagesToFetch(cache[InfiniteKey])
             \/ ~PostsPageResult(fetchMeta.done + 1, pageSize).hasMore
     THEN /\ cache' = [cache EXCEPT ![InfiniteKey] =
                 SuccessState(@, [pages |-> FetchedPages(fetchMeta.done + 1)])]
          /\ fetchMeta' = NoMeta
          /\ issued' = {}
     ELSE /\ cache' = cache
          /\ fetchMeta' = [fetchMeta EXCEPT !.done = @ + 1]
          /\ issued' = {getPostsByPage(fetchMeta.done + 2, pageSize)}
  /\ cancelled' = {}
  /\ logged' = {}
  /\ UNCHANGED <<shellVars, basicVars, tm, qm, accepted, cachePageVars,
                 errorPageVars, paginationVars>>

\* A request of the infinite query fails and the fetch ends in the error
\* state.
InfiniteFails(kind) ==
  /\ isFetching(cache[InfiniteKey])
  /\ cache' = [cache EXCEPT ![InfiniteKey] = ErrorState(@, AxiosMessage(kind))]
  /\ fetchMeta' = NoMeta
  /\ Quiet
  /\ UNCHANGED <<shellVars, basicVars, tm, qm, accepted, cachePageVars,
                 errorPageVars, paginationVars>>

\* A request of the infinite query fails and the fetch is run again from
\* its first request.
InfiniteRetried ==
  /\ isFetching(cache[InfiniteKey])
  /\ fetchMeta' = [fetchMeta EXCEPT !.done = 0]
  /\ issued' = IF fetchMeta.direction = "forward"
               THEN {getPostsByPage(NextPageParam(cache[InfiniteKey]), pageSize)}
               ELSE {RequestOf(InfiniteKey, cache)}
  /\ cancelled' = {}
  /\ logged' = {}
  /\ UNCHANGED <<shellVars, cache, basicVars, tm, qm, accepted, cachePageVars,
                 errorPageVars, paginationVars>>

\* -------------------------------------------------------------------- views

\* The live views of a query, a mutation or a hand-written fetch. The two
\* queries of the DevTools page are rendered nowhere.
Views ==
  {"TraditionalFetch", "QueryFetch", "TraditionalMutation", "QueryMutation",
   "CacheTodos", "CacheDetails", "TodosFlags", "ErrorQueryPanel",
   "ErrorMutationPanel", "StandardPagination", "InfiniteList"}

PageOf(v) ==
  IF v \in {"TraditionalFetch", "QueryFetch"} THEN "BasicQueryPage"
  ELSE IF v \in {"TraditionalMutation", "QueryMutation"} THEN "MutationsPage"
  ELSE IF v \in {"CacheTodos", "CacheDetails"} THEN "CacheManagementPage"
  ELSE IF v \in {"TodosFlags", "ErrorQueryPanel", "ErrorMutationPanel"}
    THEN "ErrorHandlingPage"
  ELSE "PaginationPage"

\* The view is on the screen: its page is the one rendered; the details
\* panel is cut off by the page's "Loading todos..." return, and the two
\* panels of the ErrorHandlingPage are behind their flags.
Mounted(v) ==
  /\ CurrentPage = PageOf(v)
  /\ v = "CacheDetails" => CachePageShown
  /\ v = "ErrorQueryPanel" => queryErrorShown
  /\ v = "ErrorMutationPanel" => mutationErrorShown

\* The state of the query a mounted view renders.
ViewQuery(v) ==
  IF v = "CacheDetails"
    THEN (IF selectedTodoId = NoId THEN NewQuery ELSE cache[TodoKey(selectedTodoId)])
  ELSE IF v = "ErrorQueryPanel" THEN cache[ErrorKey]
  ELSE IF v = "StandardPagination" THEN cache[PageKey(page)]
  ELSE IF v = "InfiniteList" THEN cache[InfiniteKey]
  ELSE cache[TodosKey]

\* The error the view's query, mutation or fetch is in the error state with,
\* or NoError.
ErrorOf(v) ==
  IF v = "TraditionalFetch" THEN tf.error
  ELSE IF v = "TraditionalMutation" THEN tm.error
  ELSE IF v = "QueryMutation" THEN qm.error
  ELSE IF v = "ErrorMutationPanel" THEN em.error
  ELSE IF isError(ViewQuery(v)) THEN ViewQuery(v).error
  ELSE NoError

InErrorState(v) == ErrorOf(v) # NoError

\* An error branch that renders a text of its own.
ErrorTemplateFixed(message) == <<"Error: ", "Something went wrong">>

\* Error: {error.message}
ErrorTemplate(message) == <<"Error: ", message>>

\* The markups a view renders for the state of its query, mutation or
\* fetch. "indicator" is the Loading... / Loading more... span a list shows
\* next to its content.
Markups(v) ==
  IF v = "TraditionalFetch"
    THEN (IF tf.isLoading THEN {"loading"}
          ELSE IF tf.error # NoError THEN {"error"} ELSE {"success"})
  ELSE IF v = "QueryFetch"
    THEN (IF isLoading(ViewQuery(v)) THEN {"loading"}
          ELSE IF ViewQuery(v).error # NoError THEN {"error"} ELSE {"success"})
  ELSE IF v = "TraditionalMutation"
    THEN (IF tm.isLoading THEN {"loading"} ELSE {})
           \cup (IF tm.error # NoError THEN {"error"} ELSE {})
           \cup (IF tm.success /\ tm.createdTodo # NoData THEN {"success"} ELSE {})
  ELSE IF v = "QueryMutation"
    THEN (IF qm.status = "pending" THEN {"loading"} ELSE {})
           \cup (IF qm.status = "error" THEN {"error"} ELSE {})
           \cup (IF qm.status = "success" THEN {"success"} ELSE {})
  ELSE IF v = "CacheTodos"
    THEN (IF isLoading(ViewQuery(v)) THEN {"loading"} ELSE {"success"})
  ELSE IF v = "CacheDetails"
    THEN (IF selectedTodoId = NoId THEN {"select a todo"}
          ELSE IF isLoading(ViewQuery(v)) THEN {"loading"}
          ELSE IF ViewQuery(v).data # NoData THEN {"success"}
          ELSE {"not found"})
  ELSE IF v = "TodosFlags" THEN {"flags"}
  ELSE IF v = "ErrorQueryPanel"
    THEN (IF isError(ViewQuery(v)) THEN {"error"}
          ELSE IF isLoading(ViewQuery(v)) THEN {"loading"} ELSE {"idle"})
  ELSE IF v = "ErrorMutationPanel"
    THEN (IF em.status = "error" THEN {"error"}
          ELSE IF em.status = "pending" THEN {"loading"} ELSE {"idle"})
  ELSE IF v = "StandardPagination"
    THEN (IF isLoading(ViewQuery(v)) THEN {"loading"}
          ELSE IF isError(ViewQuery(v)) THEN {"error"} ELSE {"success"})
           \cup (IF isFetching(ViewQuery(v)) /\ ~isLoading(ViewQuery(v))
                 THEN {"indicator"} ELSE {})
  ELSE (IF isPending(ViewQuery(v)) THEN {"loading"}
        ELSE IF isError(ViewQuery(v)) THEN {"error"} ELSE {"success"})
         \cup (IF isFetchingNextPage THEN {"indicator"} ELSE {})

\* The texts a view renders about an error.
RenderedErrorText(v) ==
  IF "error" \in Markups(v)
    THEN (IF v = "InfiniteList" THEN {<<"Error loading data">>}
          ELSE IF v = "QueryFetch" THEN {ErrorTemplate(ViewQuery(v).error)}
          ELSE {ErrorTemplate(ErrorOf(v))})
  ELSE IF "not found" \in Markups(v) THEN {<<"Todo not found">>}
  ELSE {}

\* One event of a session: a user action or a network answer. The POST
\* /todos requests it issues are counted.
Event(A) ==
  /\ steps < MaxSteps
  /\ steps' = steps + 1
  /\ A
  /\ posted' = [c \in Components |-> posted[c] + PostsIssued(issued', c)]
  /\ orphans' = orphans

DataNext ==
  \/ Event(handleSubmit)
  \/ Event(handleSubmitOk)
  \/ \E kind \in FailKinds : Event(handleSubmitFails(kind))
  \/ Event(QueryMutationClick)
  \/ Event(QueryMutationSucceeds)
  \/ \E kind \in FailKinds : Event(QueryMutationFails(kind))
  \/ \E key \in PlainKeys : Event(QuerySucceeds(key))
  \/ \E key \in PlainKeys, kind \in FailKinds : Event(QueryFails(key, kind))
  \/ \E key \in PlainKeys : Event(QueryRetried(key))
  \/ Event(WindowFocus)
  \/ Event(fetchTodosOk)
  \/ \E kind \in FailKinds : Event(fetchTodosFails(kind))
  \/ \E i \in TodoIds : Event(SelectTodo(i))
  \/ \E i \in TodoIds : Event(ToggleListed(i))
  \/ Event(ToggleSelected)
  \/ \E i \in 1..MaxToggles : Event(ToggleSucceeds(i))
  \/ \E i \in 1..MaxToggles : Event(ToggleFails(i))
  \/ Event(invalidateTodosCache)
  \/ Event(hardRefetchTodos)
  \/ \E t \in Times : Event(setTodoDirectly(t))
  \/ Event(toggleErrorQuery)
  \/ \E n \in RetrySelectOptions : Event(setRetryCount(n))
  \/ Event(runErrorMutation)
  \/ \E kind \in FailKinds : Event(errorMutationFails(kind))
  \/ Event(PreviousPage)
  \/ Event(NextPage)
  \/ Event(prefetchNextPage)
  \/ Event(fetchNextPage)
  \/ Event(InfinitePageArrives)
  \/ \E kind \in FailKinds : Event(InfiniteFails(kind))
  \/ Event(InfiniteRetried)

Spec == Init /\ [][DataNext]_vars

\* The Mutations page in a session with navigation: the header links, the
\* two Create Todo buttons and the answers to their requests, those of
\* unmounted components included.
RemountNext ==
  \/ ClickLogo
  \/ \E i \in DOMAIN navItems : ClickNavItem(i)
  \/ Event(handleSubmit)
  \/ Event(handleSubmitOk)
  \/ \E kind \in FailKinds : Event(handleSubmitFails(kind))
  \/ Event(QueryMutationClick)
  \/ Event(QueryMutationSucceeds)
  \/ \E kind \in FailKinds : Event(QueryMutationFails(kind))
  \/ \E c \in Components, ok \in BOOLEAN : OrphanAnswered(c, ok)

SpecRemount == Init /\ [][RemountNext]_vars

\* The answer to a PATCH that is still in flight when the session's events
\* are used up: the network answers whether or not the user goes on.
LateAnswer(A) ==
  /\ steps = MaxSteps
  /\ A
  /\ UNCHANGED <<steps, posted, orphans>>

\* The PATCH of the i-th toggle in flight is answered, with a success or a
\* failure.
ToggleSettles(i) ==
  \/ Event(ToggleSucceeds(i))
  \/ Event(ToggleFails(i))
  \/ LateAnswer(ToggleSucceeds(i))
  \/ LateAnswer(ToggleFails(i))

\* The toggles of the Cache Management page with the list, the selection
\* and the answers to the queries, and the late answers to the toggles.
LiveNext ==
  \/ \E key \in PlainKeys : Event(QuerySucceeds(key))
  \/ \E key \in PlainKeys, kind \in FailKinds : Event(QueryFails(key, kind))
  \/ \E i \in TodoIds : Event(SelectTodo(i))
  \/ \E i \in TodoIds : Event(ToggleListed(i))
  \/ Event(ToggleSelected)
  \/ \E i \in 1..MaxToggles : Event(ToggleSucceeds(i))
  \/ \E i \in 1..MaxToggles : Event(ToggleFails(i))
  \/ \E i \in 1..MaxToggles : LateAnswer(ToggleSucceeds(i))
  \/ \E i \in 1..MaxToggles : LateAnswer(ToggleFails(i))

\* The app loaded at the Cache Management page. The theme plays no part in
\* the events of the page, so one of the two is taken.
InitCachePage ==
  /\ Init
  /\ CurrentPage = "CacheManagementPage"
  /\ theme = "light"

\* The Cache Management page with its network: a request that was sent is
\* answered or fails (the promise of apiClient.patch settles), so a toggle
\* in flight does not stay in flight for ever.
SpecLive ==
  /\ InitCachePage
  /\ [][LiveNext]_vars
  /\ WF_vars(\E i \in 1..MaxToggles : ToggleSettles(i))

\* ------------------------------------------------------------------ claims

\* The pages the route table registers for a path.
RegisteredPages(p) == {routes[i].element : i \in MatchingRoutes(p)}

HeaderLinks == Range(navItems) \cup {logoLink}

\* C1: on the Mutations page, for the traditional component and for the
\* TanStack component alike, the number of POST /todos requests issued so
\* far equals the number of accepted activations of its Create Todo button.
C1_OnePostPerActivation == \A c \in Components : posted[c] = accepted[c]

\* Both buttons have been activated, one of them twice, and every POST has
\* been issued.
C1_Witness ==
  /\ accepted["traditional"] = 1
  /\ accepted["query"] = 2
  /\ posted["traditional"] = 1
  /\ posted["query"] = 2

\* The methods, resources and parameters the HTTP interface is said to use.
ListedMethods == {"GET", "POST", "PATCH", "DELETE"}
PaginationParams == {"_page", "_limit"}
ParamNames(r) == {p[1] : p \in r.params}

\* The path is /todos, /posts or below one of them.
OnListedPath(r) == r.path[1] \in {"todos", "posts"}

\* The path is the one the ErrorHandlingPage asks for.
OnErrorPath(r) == r.path = <<"non-existent-endpoint">>

\* C2 as stated: every request issued is a GET, POST, PATCH or DELETE on
\* /todos or /posts (or below them) with no parameters other than _page and
\* _limit.
C2_OnlyListedPaths ==
  \A r \in issued :
    /\ r.method \in ListedMethods
    /\ OnListedPath(r)
    /\ ParamNames(r) \subseteq PaginationParams

\* C2, amended: every request issued goes to the placeholder API, is a GET,
\* POST, PATCH or DELETE, and has no parameters other than _page and _limit;
\* its path is on /todos or /posts, or it is the GET or the POST of
\* /non-existent-endpoint, which only the Error Handling page sends.
C2_ListedOrErrorPath ==
  \A r \in issued :
    /\ r.base = baseURL
    /\ r.method \in ListedMethods
    /\ ParamNames(r) \subseteq PaginationParams
    /\ \/ OnListedPath(r)
       \/ /\ OnErrorPath(r)
          /\ r.method \in {"GET", "POST"}
          /\ r.params = {}
          /\ CurrentPage = "ErrorHandlingPage"

\* The error query has failed once and asked for its path again.
C2_Witness ==
  /\ issued = {fetchWithError}
  /\ cache[ErrorKey].failureCount = 1

\* The views whose error branch renders the error's message.
MessageViews ==
  {"TraditionalFetch", "QueryFetch", "TraditionalMutation", "QueryMutation",
   "ErrorQueryPanel", "ErrorMutationPanel", "StandardPagination"}

DataOf(c) == [k \in Keys |-> c[k].data]

\* A request of a query or of a create mutation fails for good.
PlainFailure ==
  \/ \E key \in PlainKeys, kind \in FailKinds : Event(QueryFails(key, kind))
  \/ \E kind \in FailKinds : Event(InfiniteFails(kind))
  \/ \E kind \in FailKinds : Event(handleSubmitFails(kind))
  \/ \E kind \in FailKinds : Event(QueryMutationFails(kind))
  \/ \E kind \in FailKinds : Event(fetchTodosFails(kind))
  \/ \E kind \in FailKinds : Event(errorMutationFails(kind))

\* The PATCH of toggle i fails.
ToggleFailure(i) == Event(ToggleFails(i))

\* C4 as stated: no fetch is started with a retry option set by the
\* repository, and a step in which a request fails changes no cached data
\* (it only records the error that is displayed).
C4_NoRetryNoRecovery ==
  /\ [](\A k \in Keys : cache[k].retry = Unset)
  /\ [][(PlainFailure \/ \E i \in 1..MaxToggles : ToggleFailure(i)) =>
          DataOf(cache') = DataOf(cache)]_vars

\* C4, amended: the one retry option the repository sets is the error
\* query's retry: retryCount, a value of the Retries select, and that query
\* is asked again at most that many times. A failing query or create
\* mutation changes no cached data. A failing toggle is recovered from: its
\* onError writes the snapshots that exist back into ['todos'] and
\* ['todo', id] and leaves all other data alone, and its onSettled asks for
\* nothing but these two queries again.
C4_RetryAndRollbackOnly ==
  /\ [](\A k \in Keys \ {ErrorKey} : cache[k].retry = Unset)
  /\ [](/\ cache[ErrorKey].retry \in {Unset} \cup RetrySelectOptions
        /\ cache[ErrorKey].failureCount <= MaxRetrySelect
        /\ isFetching(cache[ErrorKey]) =>
             cache[ErrorKey].failureCount <= cache[ErrorKey].retry)
  /\ [][PlainFailure => DataOf(cache') = DataOf(cache)]_vars
  /\ [][\A i \in 1..MaxToggles :
          ToggleFailure(i) =>
            /\ \A k \in Keys :
                 cache'[k].data =
                   IF k = TodosKey /\ toggles[i].context.previousTodos # NoData
                     THEN toggles[i].context.previousTodos
                   ELSE IF k = TodoKey(toggles[i].id)
                           /\ toggles[i].context.previousTodo # NoData
                     THEN toggles[i].context.previousTodo
                   ELSE cache[k].data
            /\ issued' \subseteq {getTodos, getTodoById(toggles[i].id)}]_vars

\* The error query, started with retry: 2 chosen in the select, has failed
\* for good after its two retries.
C4_Witness ==
  /\ retryCount = 2
  /\ isError(cache[ErrorKey])
  /\ cache[ErrorKey].failureCount = 2

\* C5 as stated: no step of the repository's code cancels the fetch of a
\* query with cancelQueries.
C5_NoCancellation == \A c \in cancelled : c.how # "cancelQueries"

\* C5, amended: cancelQueries is called in onMutate of the toggle mutation
\* and nowhere else, for ['todos'] and ['todo', id]; it comes before the
\* optimistic writes, so when the PATCH of a toggle has just been sent
\* no fetch of these two queries is in flight.
C5_CancelsOnlyInOnMutate ==
  /\ \A c \in cancelled :
       c.how = "cancelQueries" =>
         /\ CurrentPage = "CacheManagementPage"
         /\ \E id \in TodoIds :
              updateTodo(id) \in issued /\ c.key \in {TodosKey, TodoKey(id)}
  /\ \A id \in TodoIds :
       updateTodo(id) \in issued =>
         /\ ~isFetching(cache[TodosKey])
         /\ ~isFetching(cache[TodoKey(id)])

\* A toggle has just cancelled the refetch of the list and the fetch of the
\* selected todo.
C5_Witness ==
  /\ updateTodo(1) \in issued
  /\ cancelled = {[key |-> TodosKey, how |-> "cancelQueries"],
                  [key |-> TodoKey(1), how |-> "cancelQueries"]}

\* The markups of the three statuses, one at a time.
OneOfThree == {{"loading"}, {"error"}, {"success"}}

\* C6 as stated: every view on the screen renders exactly one of the
\* loading, error and success markups, and nothing else, for its query or
\* mutation.
C6_ExactlyOneOfThree == \A v \in Views : Mounted(v) => Markups(v) \in OneOfThree

\* C6, amended: TraditionalFetch and QueryFetch render exactly one of the
\* three markups. The standard list and the infinite list render exactly one
\* of them and, while fetching in the background, a loading indicator next
\* to it. The two components of the Mutations page render at most one of
\* them, and none before the first activation. The todos list of the Cache
\* page renders loading or the list; its details panel renders one of
\* "select a todo", loading, the details and "not found". The panels of the
\* Error Handling page, while shown, render Error or Loading, and its flags
\* are not a branch on a status.
C6_MarkupsPerView ==
  \A v \in Views :
    Mounted(v) =>
      IF v \in {"TraditionalFetch", "QueryFetch"} THEN Markups(v) \in OneOfThree
      ELSE IF v \in {"StandardPagination", "InfiniteList"}
        THEN /\ Markups(v) \ {"indicator"} \in OneOfThree
             /\ "indicator" \in Markups(v) =>
                  isFetching(ViewQuery(v)) /\ "loading" \notin Markups(v)
      ELSE IF v \in {"TraditionalMutation", "QueryMutation"}
        THEN Markups(v) \in OneOfThree \cup {{}}
      ELSE IF v = "CacheTodos" THEN Markups(v) \in {{"loading"}, {"success"}}
      ELSE IF v = "CacheDetails"
        THEN Markups(v) \in {{"select a todo"}, {"loading"}, {"success"},
                             {"not found"}}
      ELSE IF v = "TodosFlags" THEN Markups(v) = {"flags"}
      ELSE Markups(v) \in {{"loading"}, {"error"}}

\* The traditional component shows the error of a failed attempt, and the
\* TanStack component next to it has not been activated and shows none of
\* the three markups.
C6_Witness ==
  /\ Mounted("TraditionalMutation")
  /\ Markups("TraditionalMutation") = {"error"}
  /\ Markups("QueryMutation") = {}
  /\ accepted["traditional"] = 2

\* C7: right after a header link (a nav item or the logo) to path p has been
\* activated, the location is p, and the page rendered is the one page the
\* route table registers for p.
C7_LinkShowsItsPage ==
  (lastControl = "link" /\ lastLink \in HeaderLinks) =>
     /\ location = lastLink
     /\ RegisteredPages(lastLink) = {CurrentPage}

\* The DevTools link has just been activated and its page has mounted and
\* sent the requests of its two queries.
C7_Witness ==
  /\ lastControl = "link"
  /\ lastLink = "/devtools"
  /\ CurrentPage = "DevToolsPage"
  /\ issued = {getTodos, getPosts}

\* C8: the routes are exactly the seven paths, every in-app link (the logo,
\* the six nav items, the six home-page cards) targets one of them, and once
\* a link has been activated the location has a matching route.
C8_LinksStayRouted ==
  /\ RoutePaths = {"/", "/basic-query", "/mutations", "/cache",
                   "/error-handling", "/pagination", "/devtools"}
  /\ Len(routes) = 7
  /\ Len(navItems) = 6
  /\ Len(homeLinks) = 6
  /\ HeaderLinks \cup Range(homeLinks) \subseteq RoutePaths
  /\ lastLink # "none" => MatchingRoutes(location) # {}

\* The logo link was followed to the home page, which shows the six cards,
\* and the mobile menu with the six nav items was then opened.
C8_Witness ==
  /\ lastLink = logoLink
  /\ CurrentPage = "HomePage"
  /\ lastControl = "menu"
  /\ isMenuOpen

C10_RollbackRestoresBoth ==
  [][\A i \in 1..MaxToggles :
       (ToggleFailure(i) /\ ~toggles[i].overlapped) =>
          /\ cache'[TodosKey].data = toggles[i].before.todos
          /\ cache'[TodoKey(toggles[i].id)].data = toggles[i].before.todo]_vars

\* C10, amended: the snapshots of onMutate are the data the two queries
\* held when the toggle started; when a toggle fails, onError writes back
\* each snapshot that exists and leaves ['todo', id] alone when it had no
\* snapshot; so a failing toggle that no other toggle overlapped leaves
\* ['todos'] equal to its data before the toggle, and ['todo', id] equal to
\* its data before the toggle when it had data then.
C10_RollbackRestoresSnapshots ==
  /\ [](\A i \in DOMAIN toggles :
          /\ toggles[i].context.previousTodos = toggles[i].before.todos
          /\ toggles[i].context.previousTodo = toggles[i].before.todo)
  /\ [][\A i \in 1..MaxToggles :
          ToggleFailure(i) =>
            /\ toggles[i].context.previousTodos # NoData =>
                 cache'[TodosKey].data = toggles[i].context.previousTodos
            /\ cache'[TodoKey(toggles[i].id)].data =
                 IF toggles[i].context.previousTodo # NoData
                 THEN toggles[i].context.previousTodo
                 ELSE cache[TodoKey(toggles[i].id)].data
            /\ ~toggles[i].overlapped =>
                 /\ cache'[TodosKey].data = toggles[i].before.todos
                 /\ toggles[i].before.todo # NoData =>
                      cache'[TodoKey(toggles[i].id)].data = toggles[i].before.todo]_vars

\* A toggle of the selected todo, overlapped by no other, has just failed:
\* both queries hold the data they held before it and are asked for again.
C10_Witness ==
  /\ lastSettled # NoData
  /\ Get(lastSettled).failed
  /\ ~Get(lastSettled).overlapped
  /\ Get(lastSettled).before.todo # NoData
  /\ cache[TodosKey].data = Get(lastSettled).before.todos
  /\ cache[TodoKey(Get(lastSettled).id)].data = Get(lastSettled).before.todo
  /\ issued = {getTodos, getTodoById(Get(lastSettled).id)}

\* The onError of the last toggle of a group of overlapping toggles.
LastOnError ==
  /\ Len(toggles) = 1
  /\ ToggleFailure(1)
  /\ toggles[1].overlapped

\* C11 as stated: when overlapping toggles have all failed, the step that
\* runs the last onError leaves the data of ['todos'] equal to what the
\* query held before the first of these toggles started, in whatever order
\* the failures arrive.
C11_AllFailedRestoresFirst ==
  [][(LastOnError /\ toggles[1].allFailed) =>
        cache'[TodosKey].data = toggles[1].first]_vars

\* Two overlapping toggles have failed in the order they were started, and
\* ['todos'] holds the optimistic change of the first one.
C11_Diverged ==
  /\ toggles = <<>>
  /\ lastSettled # NoData
  /\ Get(lastSettled).overlapped
  /\ Get(lastSettled).allFailed
  /\ cache[TodosKey].data # Get(lastSettled).first
  /\ cache[TodosKey].data = Get(lastSettled).before.todos

\* C12: every toggle that was started runs its onSettled (from any state
\* with toggles in flight a state with none in flight is reached, and a
\* toggle leaves only by the step that runs its onSettled), after a success
\* as after a failure; and the step that runs onSettled leaves ['todos'] and
\* ['todo', id] of the toggled id invalidated, with a fetch in flight for
\* each of the two that the page observes.
C12_AlwaysSettlesAndInvalidates ==
  /\ (toggles # <<>>) ~> (toggles = <<>>)
  /\ [][Len(toggles') < Len(toggles) =>
          \E i \in DOMAIN toggles : ToggleSettles(i)]_vars
  /\ [][\A i \in 1..MaxToggles :
          ToggleSettles(i) =>
            \A k \in {TodosKey, TodoKey(toggles[i].id)} :
              /\ cache'[k].isInvalidated
              /\ k \in ActiveKeys => isFetching(cache'[k])]_vars

\* The toggle of the selected todo has succeeded and no toggle is in
\* flight: the list and the selected todo are invalidated and asked for
\* again.
C12_Witness ==
  /\ toggles = <<>>
  /\ lastSettled # NoData
  /\ ~Get(lastSettled).failed
  /\ Get(lastSettled).id = selectedTodoId
  /\ cache[TodosKey].isInvalidated /\ isFetching(cache[TodosKey])
  /\ cache[TodoKey(selectedTodoId)].isInvalidated
  /\ isFetching(cache[TodoKey(selectedTodoId)])
  /\ issued = {getTodos, getTodoById(selectedTodoId)}

\* The step calls toggleMutation.mutate: onMutate runs and the PATCH is sent.
ToggleStarts == Len(toggles') > Len(toggles)

\* The toggle a step has started.
Started == toggles'[Len(toggles')]

\* The optimistic value of cached data d for the toggle t: d itself when
\* there is none, else the list with the entry of t.id set to t.completed.
OptimisticList(d, t) ==
  IF d = NoData THEN NoData
  ELSE Some([i \in DOMAIN Get(d) |->
               IF Get(d)[i].id = t.id
               THEN [Get(d)[i] EXCEPT !.completed = t.completed]
               ELSE Get(d)[i]])

\* The same for the data of one todo.
OptimisticTodo(d, t) ==
  IF d = NoData THEN NoData ELSE Some([Get(d) EXCEPT !.completed = t.completed])

\* C13: in the step that starts a toggle, every fetch of ['todos'] and of
\* ['todo', id] that was in flight is cancelled by cancelQueries and none
\* of the two queries is left fetching; the snapshots are the data the
\* queries held, and the data they hold after the step are the optimistic
\* values. A fetch writes its result only while it is in flight, so a fetch
\* that was in flight when the toggle started never writes after the
\* optimistic value.
C13_CancelledBeforeOptimisticWrite ==
  /\ [][ToggleStarts =>
          /\ \A k \in {TodosKey, TodoKey(Started.id)} :
                /\ ~isFetching(cache'[k])
                /\ isFetching(cache[k]) =>
                     [key |-> k, how |-> "cancelQueries"] \in cancelled'
          /\ Started.context.previousTodos = cache[TodosKey].data
          /\ Started.context.previousTodo = cache[TodoKey(Started.id)].data
          /\ cache'[TodosKey].data = OptimisticList(cache[TodosKey].data, Started)
          /\ cache'[TodoKey(Started.id)].data =
                OptimisticTodo(cache[TodoKey(Started.id)].data, Started)]_vars
  /\ [][\A k \in {TodosKey} \cup {TodoKey(id) : id \in TodoIds} :
          (cache'[k].data # cache[k].data /\ ~ToggleStarts
             /\ ~(\E i \in 1..MaxToggles : ToggleSettles(i))
             /\ ~(\E t \in Times : Event(setTodoDirectly(t))))
          => isFetching(cache[k])]_vars

\* A toggle was started while a refetch of the list was in flight: the
\* refetch is cancelled and the list holds the optimistic value.
C13_Witness ==
  /\ Len(toggles) = 1
  /\ cancelled = {[key |-> TodosKey, how |-> "cancelQueries"]}
  /\ ~isFetching(cache[TodosKey])
  /\ cache[TodosKey].data = OptimisticList(toggles[1].before.todos, toggles[1])
  /\ cache[TodosKey].data # toggles[1].before.todos

\* Todo b is todo a with at most its completed field changed.
SameButCompleted(a, b) == [b EXCEPT !.completed = a.completed] = a

\* C14: the step that starts a toggle of todo id to the value c leaves
\* every query that held no data without data and every query other than
\* ['todos'] and ['todo', id] with the data it held; the list keeps its
\* length and order, its entries other than the one with that id are
\* unchanged, and that entry keeps every field but completed, which is c;
\* likewise for the data of ['todo', id].
C14_OnlyCompletedOfThatTodo ==
  [][ToggleStarts =>
       /\ \A k \in Keys :
             /\ cache[k].data = NoData => cache'[k].data = NoData
             /\ k \notin {TodosKey, TodoKey(Started.id)} =>
                  cache'[k].data = cache[k].data
       /\ cache[TodosKey].data # NoData =>
             LET old == Get(cache[TodosKey].data)
                 new == Get(cache'[TodosKey].data)
             IN /\ Len(new) = Len(old)
                /\ \A j \in DOMAIN old :
                      IF old[j].id = Started.id
                      THEN /\ SameButCompleted(old[j], new[j])
                           /\ new[j].completed = Started.completed
                      ELSE new[j] = old[j]
       /\ cache[TodoKey(Started.id)].data # NoData =>
             /\ SameButCompleted(Get(cache[TodoKey(Started.id)].data),
                                 Get(cache'[TodoKey(Started.id)].data))
             /\ Get(cache'[TodoKey(Started.id)].data).completed =
                  Started.completed]_vars

\* The selected todo, cached and listed with another todo, has just been
\* toggled: its completed field has changed in both caches, the list is as
\* long as it was and the query of the other todo holds no data.
C14_Witness ==
  /\ Len(toggles) = 1
  /\ updateTodo(toggles[1].id) \in issued
  /\ toggles[1].before.todos # NoData
  /\ toggles[1].before.todo # NoData
  /\ Len(ListedTodos) = NTodos
  /\ cache[TodosKey].data # toggles[1].before.todos
  /\ Get(cache[TodoKey(toggles[1].id)].data).completed = toggles[1].completed
  /\ Get(toggles[1].before.todo).completed # toggles[1].completed
  /\ \A id \in TodoIds \ {toggles[1].id} : cache[TodoKey(id)].data = NoData

\* The titles the cached list c[TodosKey] gives the todo id.
ListedTitles(c, id) ==
  IF c[TodosKey].data = NoData THEN {}
  ELSE {Get(c[TodosKey].data)[j].title :
          j \in {x \in DOMAIN Get(c[TodosKey].data) :
                   Get(c[TodosKey].data)[x].id = id}}

\* Every cached ['todo', id] has the title the cached list gives that todo.
TitlesAgree(c) ==
  \A id \in TodoIds :
    c[TodoKey(id)].data # NoData =>
      \A title \in ListedTitles(c, id) : Get(c[TodoKey(id)].data).title = title

\* C15 as stated: after a step of Set Cache Directly every cached
\* ['todo', id] has the title of the entry with that id in the cached list.
C15_TitlesAgreeAfterSetDirectly ==
  [][(\E t \in Times : Event(setTodoDirectly(t))) => TitlesAgree(cache')]_vars

\* The first todo was selected and cached, another todo was selected, and
\* Set Cache Directly has renamed the first todo in the list only.
C15_StaleTitle ==
  /\ ListedTodos # <<>>
  /\ selectedTodoId \notin {NoId, ListedTodos[1].id}
  /\ cache[TodoKey(ListedTodos[1].id)].data # NoData
  /\ ListedTodos[1].title \in {UpdatedTitle(t) : t \in Times}
  /\ Get(cache[TodoKey(ListedTodos[1].id)].data).title # ListedTodos[1].title

\* The mounted instance of a Mutations-page component has a create request
\* in flight.
Creating(c, t, q) == IF c = "traditional" THEN t.isLoading ELSE q.status = "pending"

\* The create requests of a component in flight, those of its unmounted
\* instances included.
CreatesInFlight(c) == orphans[c] + (IF Creating(c, tm, qm) THEN 1 ELSE 0)

\* C16 as stated: at no time are two create requests of the same component
\* in flight.
C16_OneCreateInFlight == \A c \in Components : CreatesInFlight(c) <= 1

\* C16, amended: a Create Todo button accepts an activation only while its
\* mounted instance has no create request in flight, and the instance then
\* has one in flight until the request settles or the page is left; so a
\* session that has followed no link has at most one create request per
\* component in flight. Requests of instances unmounted by navigation stay
\* in flight next to the one of the instance mounted afterwards.
C16_OneCreatePerMountedInstance ==
  /\ [][\A c \in Components :
          /\ accepted'[c] > accepted[c] =>
               ~Creating(c, tm, qm) /\ Creating(c, tm', qm')
          /\ (Creating(c, tm, qm) /\ ~Creating(c, tm', qm')) =>
               \/ location' # location /\ orphans'[c] = orphans[c] + 1
               \/ Event(handleSubmitOk) \/ Event(QueryMutationSucceeds)
               \/ \E kind \in FailKinds :
                    Event(handleSubmitFails(kind)) \/ Event(QueryMutationFails(kind))]_vars
  /\ [](lastLink = "none" => C16_OneCreateInFlight)

\* Both buttons are disabled with a request in flight each, next to the
\* request of a QueryMutation that was unmounted by navigation.
C16_Witness ==
  /\ CurrentPage = "MutationsPage"
  /\ Creating("traditional", tm, qm)
  /\ Creating("query", tm, qm)
  /\ orphans = [traditional |-> 0, query |-> 1]

\* C17: TraditionalMutation never displays the error banner and the success
\* banner together; the success banner comes up only in the step in which a
\* submission succeeds, that step leaves the success banner alone on the
\* screen, and a step in which a submission fails leaves the error banner
\* alone, whatever createdTodo holds from an earlier success.
C17_BannersFollowLastSubmission ==
  /\ [](~(ErrorBanner(tm) /\ SuccessBanner(tm)))
  /\ [][/\ (SuccessBanner(tm') /\ ~SuccessBanner(tm)) => Event(handleSubmitOk)
        /\ Event(handleSubmitOk) => SuccessBanner(tm') /\ ~ErrorBanner(tm')
        /\ (\E kind \in FailKinds : Event(handleSubmitFails(kind))) =>
             ErrorBanner(tm') /\ ~SuccessBanner(tm')]_vars

\* A submission has succeeded and the next one has failed: createdTodo
\* still holds the todo of the first, and only the error banner is shown.
C17_Witness ==
  /\ accepted["traditional"] = 2
  /\ ~tm.isLoading
  /\ tm.createdTodo # NoData
  /\ ErrorBanner(tm)
  /\ ~SuccessBanner(tm)

\* C18: the k-th page the infinite list holds is the answer to the request
\* with _page = k, so the pages held are pages 1..n in order, none skipped
\* and none twice; Load More asks for the page after the ones held, with
\* _limit = pageSize and nothing else, and the step in which its answer
\* arrives appends that page and leaves the pages before it as they were.
C18_PagesInOrder ==
  /\ [](\A k \in DOMAIN InfinitePages(cache[InfiniteKey]) :
          InfinitePages(cache[InfiniteKey])[k] = PostsPageResult(k, pageSize))
  /\ [][Event(fetchNextPage) =>
          issued' = {getPostsByPage(Len(InfinitePages(cache[InfiniteKey])) + 1,
                                    pageSize)}]_vars
  /\ [][(Event(InfinitePageArrives) /\ fetchMeta.direction = "forward") =>
          /\ Len(InfinitePages(cache'[InfiniteKey])) =
               Len(InfinitePages(cache[InfiniteKey])) + 1
          /\ \A k \in DOMAIN InfinitePages(cache[InfiniteKey]) :
               InfinitePages(cache'[InfiniteKey])[k] =
                 InfinitePages(cache[InfiniteKey])[k]]_vars

\* Load More has been activated until the server had no more posts: the
\* list holds every full page and the empty page after them.
C18_Witness ==
  /\ CurrentPage = "PaginationPage"
  /\ Len(InfinitePages(cache[InfiniteKey])) = FullPages + 1
  /\ ~hasNextPage(cache[InfiniteKey])
  /\ ~isFetching(cache[InfiniteKey])

====
